---- MODULE Spec2Model ----
(***************************************************************************)
(* Model of src/transcribe.cpp: the real-time transcription loop.          *)
(*                                                                         *)
(* One iteration of the `while (true)` loop of main() is one cadence tick. *)
(* The loop body is split into its steps (poll, cadence wait, fetch, VAD,  *)
(* accumulate, start of segment, end of segment) and `pc` is the position  *)
(* of main() between them.                                                 *)
(*                                                                         *)
(* Audio is not modelled sample by sample: a run of samples copied out of  *)
(* the capture buffer is a chunk [tick, from, to), the samples from..to-1  *)
(* of the buffer that the fetch of tick `tick` returned.  pcmf32_segment   *)
(* is the sequence of the chunks inserted into it, pcmf32_buffer the size  *)
(* of the buffer returned by the last fetch.                               *)
(*                                                                         *)
(* Time is in milliseconds; time_since_last is the wall-clock time that    *)
(* has passed since last_audio_get_time.                                   *)
(***************************************************************************)
EXTENDS Integers, Sequences, FiniteSets, TLC

VARIABLES
    params,            \* whisper_params after whisper_params_parse
    pc,                \* position of main()
    ctx,               \* whisper context: "null", "live", "freed"
    vad_ctx,           \* VAD context: "null", "live", "freed"
    audio,             \* audio capture: "uninit", "running", "paused"
    exit_code,         \* return value of main(), Running while it runs
    in_speech,         \* bool in_speech
    pcmf32_segment,    \* chunks of the current speech segment
    pcmf32_buffer,     \* size of the capture buffer of the last fetch
    time_since_last,   \* wall-clock ms since last_audio_get_time
    elapsed_time_ms,   \* elapsed_time_ms of the current tick
    voice_detected,    \* voice_detected of the current tick
    tick,              \* number of fetches so far
    vad_out,           \* what the detector did in detect_voice_activity
    n_whisper_full,    \* number of whisper_full invocations so far
    call_len,          \* length of the input of the whisper_full call of this tick
    n_starts,          \* number of segments started so far
    out,               \* lines written to stdout
    raw_results,       \* what whisper_full produced, one entry per invocation
    speech_ticks,      \* <<elapsed, buffer size>> of the ticks accumulated into the segment
    start_in_speech,   \* in_speech at the top of the current tick
    start_segment,     \* pcmf32_segment at the top of the current tick
    verdicts,          \* per tick: "voice", "silence", or "none" when no verdict was computed
    pcmf32_vad,        \* size of the VAD buffer handed to detect_voice_activity
    sleep_duration     \* sleep_duration of the cadence wait in progress, 0 outside it

vars == <<params, pc, ctx, vad_ctx, audio, exit_code, in_speech,
          pcmf32_segment, pcmf32_buffer, time_since_last, elapsed_time_ms,
          voice_detected, tick, vad_out, n_whisper_full, call_len, n_starts,
          out, raw_results, speech_ticks, start_in_speech, start_segment,
          verdicts, pcmf32_vad, sleep_duration>>

----------------------------------------------------------------------------
(* Bounds and input sets *)

MaxTicks == 6

WHISPER_SAMPLE_RATE == 16000

Running == -1

\* command lines: the values given for --audio-buffer, --silence, --min-step
\* and --vad-thold (the threshold and the probabilities are in hundredths)
Configs ==
    { [audio_buffer_ms |-> 2000, silence_ms |-> 500,  min_step_ms |-> 500, vad_thold |-> 50],
      [audio_buffer_ms |-> 500,  silence_ms |-> 100,  min_step_ms |-> 50,  vad_thold |-> 60],
      [audio_buffer_ms |-> 2000, silence_ms |-> 5000, min_step_ms |-> 500, vad_thold |-> 50] }

\* time by which a sleep, or the code between two clock reads, runs late
Jitter == {0, 3000}

\* duration of a whisper_full call
TranscribeTimes == {200, 3000}

\* what the detector leaves in whisper_vad_probs
ProbSets == { <<>>, <<40, 60>>, <<60, 40>>, <<50>> }

\* texts of the segments whisper_full produces (a text is a sequence of characters)
WhisperTexts ==
    { <<>>,
      << <<" ">> >>,
      << <<" ", "h", "i">> >>,
      << <<" ", "h", "i">>, <<>>, <<" ", "y", "o", " ">> >> }

----------------------------------------------------------------------------
(* Helpers *)

Max(a, b) == IF a >= b THEN a ELSE b

Min(a, b) == IF a <= b THEN a ELSE b

\* whisper_params_parse: the parameter validation
whisper_params_parse(args) ==
    [ audio_buffer_ms |-> Max(args.audio_buffer_ms, 1000),
      silence_ms      |-> Max(args.silence_ms, 500),
      min_step_ms     |-> Max(args.min_step_ms, 100),
      vad_thold       |-> args.vad_thold ]

n_samples_buffer == (params.audio_buffer_ms * WHISPER_SAMPLE_RATE) \div 1000

n_samples_vad == (params.silence_ms * WHISPER_SAMPLE_RATE) \div 1000

\* sizes audio.get can return: at most the requested duration
BufferSizes == { n \in {0, 4000, 12000, n_samples_buffer} : n <= n_samples_buffer }

RECURSIVE MaxElement(_)
MaxElement(s) ==
    IF Len(s) = 1 THEN s[1] ELSE Max(s[1], MaxElement(Tail(s)))

\* mutant: the comparison with the threshold is not strict
detect_voice_activity_ge(vad_ctx_ok, n_audio_samples, vad_success, probs, vad_threshold) ==
    IF ~vad_ctx_ok \/ n_audio_samples = 0 THEN FALSE
    ELSE IF ~vad_success THEN FALSE
    ELSE IF Len(probs) <= 0 THEN FALSE
    ELSE MaxElement(probs) >= vad_threshold

\* mutant: a failure of the detector is taken for voice
detect_voice_activity_failopen(vad_ctx_ok, n_audio_samples, vad_success, probs, vad_threshold) ==
    IF ~vad_ctx_ok \/ n_audio_samples = 0 THEN FALSE
    ELSE IF ~vad_success THEN TRUE
    ELSE IF Len(probs) <= 0 THEN FALSE
    ELSE MaxElement(probs) > vad_threshold

\* detect_voice_activity, given what the detector does when it is invoked
detect_voice_activity(vad_ctx_ok, n_audio_samples, vad_success, probs, vad_threshold) ==
    IF ~vad_ctx_ok \/ n_audio_samples = 0 THEN FALSE
    ELSE IF ~vad_success THEN FALSE
    ELSE IF Len(probs) <= 0 THEN FALSE
    ELSE MaxElement(probs) > vad_threshold

\* whether detect_voice_activity invokes the detector
DetectorInvoked(vad_ctx_ok, n_audio_samples) ==
    ~(~vad_ctx_ok \/ n_audio_samples = 0)

\* number of whisper_vad_detect_speech calls of one detect_voice_activity
DetectorCalls(vad_ctx_ok, n_audio_samples) ==
    IF ~vad_ctx_ok \/ n_audio_samples = 0 THEN 0 ELSE 1

Chunk(t, from, to) == [tick |-> t, from |-> from, to |-> to]

RECURSIVE SegLen(_)
SegLen(seg) ==
    IF seg = <<>> THEN 0
    ELSE (seg[1].to - seg[1].from) + SegLen(Tail(seg))

\* mutant: the whole capture window is taken as new on every tick
NewSamples_whole(elapsed, buffer_size) == buffer_size

\* mutant: the elapsed-derived count is not capped at the capture window
NewSamples_nocap(elapsed, buffer_size) ==
    (elapsed * WHISPER_SAMPLE_RATE) \div 1000

\* new_samples of the accumulate step
NewSamples(elapsed, buffer_size) ==
    Min((elapsed * WHISPER_SAMPLE_RATE) \div 1000, buffer_size)

\* the insert of the accumulate step
Accumulated(seg, t, elapsed, buffer_size) ==
    LET new_samples == NewSamples(elapsed, buffer_size) IN
    IF new_samples > 0
    THEN Append(seg, Chunk(t, buffer_size - new_samples, buffer_size))
    ELSE seg

\* mutant: the seed is taken from the head of the capture window
Seeded_head(seg, t, buffer_size, n_vad) ==
    Append(<<>>, Chunk(t, 0, n_vad))

\* the clear and insert of the start of a segment
Seeded(seg, t, buffer_size, n_vad) ==
    Append(<<>>, Chunk(t, buffer_size - n_vad, buffer_size))

IsSpace(c) == c \in {" ", "\t", "\n", "\r"}

RECURSIVE LTrim(_)
LTrim(s) ==
    IF s # <<>> /\ IsSpace(s[1]) THEN LTrim(Tail(s)) ELSE s

RECURSIVE RTrim(_)
RTrim(s) ==
    IF s # <<>> /\ IsSpace(s[Len(s)]) THEN RTrim(SubSeq(s, 1, Len(s) - 1)) ELSE s

\* ::trim of common.h
trim(s) == RTrim(LTrim(s))

\* the loop over the segments of the result: full_text
RECURSIVE FullText(_)
FullText(texts) ==
    IF texts = <<>> THEN <<>>
    ELSE (IF Len(texts[1]) > 0 THEN texts[1] ELSE <<>>) \o FullText(Tail(texts))

\* mutant: the text is returned without trimming
TranscribedText_untrimmed(rc_ok, texts) ==
    IF rc_ok THEN FullText(texts) ELSE <<>>

\* transcribe_audio_segment once whisper_full has returned rc
TranscribedText(rc_ok, texts) ==
    IF rc_ok THEN trim(FullText(texts)) ELSE <<>>

\* mutant: the text is printed without the check for an empty text
Emitted_always(lines, transcribed_text) == Append(lines, transcribed_text)

\* the output step: the lines on stdout after transcribed_text
Emitted(lines, transcribed_text) ==
    IF transcribed_text # <<>> THEN Append(lines, transcribed_text) ELSE lines

NoVad == [invoked |-> FALSE, calls |-> 0, success |-> FALSE, probs |-> <<>>]

----------------------------------------------------------------------------
(* Initial state: main() entered, the arguments parsed *)

Init ==
    /\ \E args \in Configs : params = whisper_params_parse(args)
    /\ pc = "init"
    /\ ctx = "null"
    /\ vad_ctx = "null"
    /\ audio = "uninit"
    /\ exit_code = Running
    /\ in_speech = FALSE
    /\ pcmf32_segment = <<>>
    /\ pcmf32_buffer = n_samples_buffer
    /\ time_since_last = 0
    /\ elapsed_time_ms = 0
    /\ voice_detected = FALSE
    /\ tick = 0
    /\ vad_out = NoVad
    /\ n_whisper_full = 0
    /\ call_len = 0
    /\ n_starts = 0
    /\ out = <<>>
    /\ raw_results = <<>>
    /\ speech_ticks = <<>>
    /\ start_in_speech = FALSE
    /\ start_segment = <<>>
    /\ verdicts = <<>>
    /\ pcmf32_vad = n_samples_vad
    /\ sleep_duration = 0

loop_state == <<in_speech, pcmf32_segment, pcmf32_buffer, time_since_last,
                elapsed_time_ms, voice_detected, tick, vad_out, n_whisper_full,
                call_len, n_starts, out, raw_results, speech_ticks,
                start_in_speech, start_segment, verdicts, sleep_duration>>

resources == <<ctx, vad_ctx, audio, exit_code>>

----------------------------------------------------------------------------
(* Startup: lines 264-301 *)

\* whisper_free and whisper_vad_free on a context
Freed(c) ==
    CASE c = "live"  -> "freed"
      [] c = "null"  -> "null"
      [] OTHER       -> "freed twice"

InitFailWhisper ==
    /\ pc = "init"
    /\ pc' = "done"
    /\ exit_code' = 2
    /\ UNCHANGED <<params, pcmf32_vad, ctx, vad_ctx, audio, loop_state>>

\* mutant: the failure of the VAD model exits with the code of the primary model
InitFailVad_samecode ==
    /\ pc = "init"
    /\ pc' = "done"
    /\ ctx' = Freed("live")
    /\ exit_code' = 2
    /\ UNCHANGED <<params, pcmf32_vad, vad_ctx, audio, loop_state>>

InitFailVad ==
    /\ pc = "init"
    /\ pc' = "done"
    /\ ctx' = Freed("live")
    /\ exit_code' = 3
    /\ UNCHANGED <<params, pcmf32_vad, vad_ctx, audio, loop_state>>

InitFailAudio ==
    /\ pc = "init"
    /\ pc' = "done"
    /\ ctx' = "live"
    /\ vad_ctx' = "live"
    /\ exit_code' = 1
    /\ UNCHANGED <<params, pcmf32_vad, audio, loop_state>>

InitOk ==
    /\ pc = "init"
    /\ pc' = "poll"
    /\ ctx' = "live"
    /\ vad_ctx' = "live"
    /\ audio' = "running"
    /\ time_since_last' = 0
    /\ in_speech' = FALSE
    /\ UNCHANGED <<params, pcmf32_vad, exit_code, pcmf32_segment, pcmf32_buffer,
                   elapsed_time_ms, voice_detected, tick, vad_out,
                   n_whisper_full, call_len, n_starts, out, raw_results,
                   speech_ticks, start_in_speech, start_segment, verdicts, sleep_duration>>

----------------------------------------------------------------------------
(* The main loop: lines 333-401 *)

\* the locals of the loop body after the end of an iteration
EndOfTick ==
    /\ pc' = "poll"
    /\ voice_detected' = FALSE
    /\ elapsed_time_ms' = 0
    /\ call_len' = 0
    /\ start_in_speech' = FALSE
    /\ start_segment' = <<>>

\* line 335: sdl_poll_events() reports the interrupt
PollInterrupt ==
    /\ pc = "poll"
    /\ pc' = "exit"
    /\ UNCHANGED <<params, pcmf32_vad, resources, loop_state>>

\* line 335: no interrupt, the tick begins
PollContinue ==
    /\ pc = "poll"
    /\ tick < MaxTicks
    /\ pc' = "wait"
    /\ start_in_speech' = in_speech
    /\ start_segment' = pcmf32_segment
    /\ UNCHANGED <<params, pcmf32_vad, resources, in_speech, pcmf32_segment, pcmf32_buffer,
                   time_since_last, elapsed_time_ms, voice_detected, tick,
                   vad_out, n_whisper_full, call_len, n_starts, out,
                   raw_results, speech_ticks, verdicts, sleep_duration>>

\* sleep_duration of line 340
SleepDuration(min_step_ms, since_last) == min_step_ms - since_last

\* mutant: the loop never sleeps
AfterWait_nosleep(min_step_ms, since_last, late) == since_last + late

\* the time since last_audio_get_time after lines 338-343, the sleep taking
\* `late` ms longer than asked
AfterWait(min_step_ms, since_last, late) ==
    IF SleepDuration(min_step_ms, since_last) > 0
    THEN since_last + SleepDuration(min_step_ms, since_last) + late
    ELSE since_last + late

\* lines 337-343: the cadence wait
CadenceWait ==
    /\ pc = "wait"
    /\ pc' = "fetch"
    /\ sleep_duration' = SleepDuration(params.min_step_ms, time_since_last)
    /\ \E late \in Jitter :
          time_since_last' = AfterWait(params.min_step_ms, time_since_last, late)
    /\ UNCHANGED <<params, pcmf32_vad, resources, in_speech, pcmf32_segment, pcmf32_buffer,
                   elapsed_time_ms, voice_detected, tick, vad_out,
                   n_whisper_full, call_len, n_starts, out, raw_results,
                   speech_ticks, start_in_speech, start_segment, verdicts>>

\* lines 345-350: fetch the capture window
FetchAudio ==
    /\ pc = "fetch"
    /\ pc' = "vad"
    /\ \E n \in BufferSizes : pcmf32_buffer' = n
    /\ elapsed_time_ms' = time_since_last
    /\ time_since_last' = 0
    /\ sleep_duration' = 0
    /\ tick' = tick + 1
    /\ UNCHANGED <<params, pcmf32_vad, resources, in_speech, pcmf32_segment,
                   voice_detected, vad_out, n_whisper_full, call_len,
                   n_starts, out, raw_results, speech_ticks,
                   start_in_speech, start_segment, verdicts>>

\* what the detector can do when invoked
DetectorOutcomes ==
    { [success |-> FALSE, probs |-> <<>>] } \cup
    { [success |-> TRUE, probs |-> p] : p \in ProbSets }

\* what detect_voice_activity did with the detector, the detector doing d
VadOut(vad_ctx_ok, n_audio_samples, d) ==
    IF DetectorInvoked(vad_ctx_ok, n_audio_samples)
    THEN [invoked |-> TRUE,
          calls   |-> DetectorCalls(vad_ctx_ok, n_audio_samples),
          success |-> d.success,
          probs   |-> d.probs]
    ELSE NoVad

\* mutant: any capture window is scored
HasVadWindow_always(buffer_size, n_vad) == TRUE

\* mutant: only an empty capture window is not scored
HasVadWindow_nonempty(buffer_size, n_vad) == buffer_size > 0

\* the condition of line 354
HasVadWindow(buffer_size, n_vad) == buffer_size >= n_vad

\* lines 352-358: the verdict of the tick
Vad ==
    /\ pc = "vad"
    /\ pc' = "accumulate"
    /\ IF HasVadWindow(pcmf32_buffer, n_samples_vad)
       THEN \E d \in DetectorOutcomes :
              /\ voice_detected' = detect_voice_activity(vad_ctx = "live",
                                      pcmf32_vad, d.success, d.probs,
                                      params.vad_thold)
              /\ vad_out' = VadOut(vad_ctx = "live", pcmf32_vad, d)
              /\ verdicts' = Append(verdicts,
                               IF voice_detected' THEN "voice" ELSE "silence")
       ELSE /\ voice_detected' = FALSE
            /\ vad_out' = NoVad
            /\ verdicts' = Append(verdicts, "none")
    /\ UNCHANGED <<params, pcmf32_vad, resources, in_speech, pcmf32_segment, pcmf32_buffer,
                   time_since_last, elapsed_time_ms, tick, n_whisper_full,
                   call_len, n_starts, out, raw_results, speech_ticks,
                   start_in_speech, start_segment, sleep_duration>>

\* mutant: the samples are accumulated whatever the state
ShouldAccumulate_always(speech) == TRUE

\* the condition of line 360
ShouldAccumulate(speech) == speech

\* lines 360-367: accumulate the new samples while in speech
Accumulate ==
    /\ pc = "accumulate"
    /\ pc' = "start"
    /\ vad_out' = NoVad
    /\ IF ShouldAccumulate(in_speech)
       THEN /\ pcmf32_segment' = Accumulated(pcmf32_segment, tick,
                                             elapsed_time_ms, pcmf32_buffer)
            /\ speech_ticks' = Append(speech_ticks, <<elapsed_time_ms, pcmf32_buffer>>)
       ELSE UNCHANGED <<pcmf32_segment, speech_ticks>>
    /\ UNCHANGED <<params, pcmf32_vad, resources, in_speech, pcmf32_buffer,
                   time_since_last, elapsed_time_ms, voice_detected, tick,
                   n_whisper_full, call_len, n_starts, out, raw_results,
                   start_in_speech, start_segment, verdicts, sleep_duration>>

\* lines 369-380: start of a new speech segment
StartSegment ==
    /\ pc = "start"
    /\ pc' = "finalize"
    /\ IF voice_detected /\ ~in_speech
       THEN /\ in_speech' = TRUE
            /\ pcmf32_segment' = Seeded(pcmf32_segment, tick, pcmf32_buffer,
                                        n_samples_vad)
            /\ n_starts' = n_starts + 1
            /\ speech_ticks' = <<>>
       ELSE UNCHANGED <<in_speech, pcmf32_segment, n_starts, speech_ticks>>
    /\ UNCHANGED <<params, pcmf32_vad, resources, pcmf32_buffer, time_since_last,
                   elapsed_time_ms, voice_detected, tick, vad_out,
                   n_whisper_full, call_len, out, raw_results,
                   start_in_speech, start_segment, verdicts, sleep_duration>>

\* mutant: the end of speech is never taken
EndOfSpeech_never(voice, speech) == FALSE

\* the condition of line 382
EndOfSpeech(voice, speech) == ~voice /\ speech

\* line 382 false: the iteration ends
NoEndOfSpeech ==
    /\ pc = "finalize"
    /\ ~EndOfSpeech(voice_detected, in_speech)
    /\ EndOfTick
    /\ UNCHANGED <<params, pcmf32_vad, resources, in_speech, pcmf32_segment, pcmf32_buffer,
                   time_since_last, tick, vad_out, n_whisper_full, n_starts,
                   out, raw_results, speech_ticks, verdicts, sleep_duration>>

\* mutant: the state is not reset after the transcription
AfterSegment_stale(speech, seg) == [in_speech |-> speech, pcmf32_segment |-> seg]

\* mutant: the segment is not cleared after the transcription
AfterSegment_keep(speech, seg) == [in_speech |-> FALSE, pcmf32_segment |-> seg]

\* lines 397-399: reset for the next speech segment
AfterSegment(speech, seg) == [in_speech |-> FALSE, pcmf32_segment |-> <<>>]

\* lines 382-389 and 154-187: end of the speech segment, whisper_full is
\* invoked unless the segment is empty
TranscribeCall ==
    /\ pc = "finalize"
    /\ EndOfSpeech(voice_detected, in_speech)
    /\ IF pcmf32_segment = <<>>
       THEN /\ out' = Emitted(out, <<>>)
            /\ in_speech' = AfterSegment(in_speech, pcmf32_segment).in_speech
            /\ pcmf32_segment' = AfterSegment(in_speech, pcmf32_segment).pcmf32_segment
            /\ speech_ticks' = <<>>
            /\ EndOfTick
            /\ UNCHANGED <<n_whisper_full>>
       ELSE /\ pc' = "transcribing"
            /\ n_whisper_full' = n_whisper_full + 1
            /\ call_len' = SegLen(pcmf32_segment)
            /\ UNCHANGED <<out, in_speech, pcmf32_segment, speech_ticks,
                           voice_detected, elapsed_time_ms, start_in_speech,
                           start_segment>>
    /\ UNCHANGED <<params, pcmf32_vad, resources, pcmf32_buffer, time_since_last, tick,
                   vad_out, n_starts, raw_results, verdicts, sleep_duration>>

\* what whisper_full can do
WhisperOutcomes ==
    { [ok |-> FALSE, texts |-> <<>>] } \cup
    { [ok |-> TRUE, texts |-> t] : t \in WhisperTexts }

\* lines 187-213 and 389-400: whisper_full returns, the text is printed and
\* the segment reset
TranscribeReturn ==
    /\ pc = "transcribing"
    /\ \E r \in WhisperOutcomes, d \in TranscribeTimes :
          /\ out' = Emitted(out, TranscribedText(r.ok, r.texts))
          /\ raw_results' = Append(raw_results, r)
          /\ time_since_last' = time_since_last + d
    /\ in_speech' = AfterSegment(in_speech, pcmf32_segment).in_speech
    /\ pcmf32_segment' = AfterSegment(in_speech, pcmf32_segment).pcmf32_segment
    /\ speech_ticks' = <<>>
    /\ EndOfTick
    /\ UNCHANGED <<params, pcmf32_vad, resources, pcmf32_buffer, tick, vad_out,
                   n_whisper_full, n_starts, verdicts, sleep_duration>>

\* mutant: the segment in progress is transcribed and printed on the way out
Cleanup_flush ==
    /\ pc = "exit"
    /\ pc' = "done"
    /\ audio' = "paused"
    /\ vad_ctx' = "freed"
    /\ ctx' = "freed"
    /\ exit_code' = 0
    /\ n_whisper_full' = IF in_speech THEN n_whisper_full + 1 ELSE n_whisper_full
    /\ out' = IF in_speech THEN Append(out, <<"h", "i">>) ELSE out
    /\ UNCHANGED <<params, pcmf32_vad, in_speech, pcmf32_segment, pcmf32_buffer,
                   time_since_last, elapsed_time_ms, voice_detected, tick,
                   vad_out, call_len, n_starts, raw_results, speech_ticks,
                   start_in_speech, start_segment, verdicts, sleep_duration>>

\* mutant: the VAD context is not freed on the way out
Cleanup_leak ==
    /\ pc = "exit"
    /\ pc' = "done"
    /\ audio' = "paused"
    /\ ctx' = Freed(ctx)
    /\ exit_code' = 0
    /\ UNCHANGED <<params, pcmf32_vad, vad_ctx, loop_state>>

\* lines 403-406: after the loop
Cleanup ==
    /\ pc = "exit"
    /\ pc' = "done"
    /\ audio' = "paused"
    /\ vad_ctx' = Freed(vad_ctx)
    /\ ctx' = Freed(ctx)
    /\ exit_code' = 0
    /\ UNCHANGED <<params, pcmf32_vad, loop_state>>

Next ==
    \/ InitFailWhisper
    \/ InitFailVad
    \/ InitFailAudio
    \/ InitOk
    \/ PollInterrupt
    \/ PollContinue
    \/ CadenceWait
    \/ FetchAudio
    \/ Vad
    \/ Accumulate
    \/ StartSegment
    \/ NoEndOfSpeech
    \/ TranscribeCall
    \/ TranscribeReturn
    \/ Cleanup

Spec == Init /\ [][Next]_vars

----------------------------------------------------------------------------
(* detect_voice_activity on its own: lines 118-147, applied to drawn inputs *)

\* lengths of the window handed to detect_voice_activity
VadWindowSizes == {0, 1, 8000}

\* detect_voice_activity is about to be called on a window of any length,
\* with or without a VAD context
InitDecide ==
    /\ \E args \in Configs : params = whisper_params_parse(args)
    /\ pc = "decide"
    /\ ctx = "live"
    /\ vad_ctx \in {"null", "live"}
    /\ audio = "running"
    /\ exit_code = Running
    /\ in_speech \in BOOLEAN
    /\ pcmf32_segment = <<>>
    /\ pcmf32_buffer = n_samples_buffer
    /\ time_since_last = 0
    /\ elapsed_time_ms = 0
    /\ voice_detected = FALSE
    /\ tick = 0
    /\ vad_out = NoVad
    /\ n_whisper_full = 0
    /\ call_len = 0
    /\ n_starts = 0
    /\ out = <<>>
    /\ raw_results = <<>>
    /\ speech_ticks = <<>>
    /\ start_in_speech = in_speech
    /\ start_segment = <<>>
    /\ verdicts = <<>>
    /\ pcmf32_vad \in VadWindowSizes
    /\ sleep_duration = 0

\* one call of detect_voice_activity
Decide ==
    /\ pc = "decide"
    /\ pc' = "decided"
    /\ \E d \in DetectorOutcomes :
          /\ voice_detected' = detect_voice_activity(vad_ctx = "live",
                                  pcmf32_vad, d.success, d.probs,
                                  params.vad_thold)
          /\ vad_out' = VadOut(vad_ctx = "live", pcmf32_vad, d)
    /\ UNCHANGED <<params, pcmf32_vad, resources, in_speech, pcmf32_segment,
                   pcmf32_buffer, time_since_last, elapsed_time_ms, tick,
                   n_whisper_full, call_len, n_starts, out, raw_results,
                   speech_ticks, start_in_speech, start_segment, verdicts,
                   sleep_duration>>

\* the program, or detect_voice_activity alone on drawn inputs
SpecDecide == (Init \/ InitDecide) /\ [][Next \/ Decide]_vars

TypeOK ==
    /\ pc \in {"init", "poll", "wait", "fetch", "vad", "accumulate", "start",
               "finalize", "transcribing", "exit", "done", "decide", "decided"}
    /\ in_speech \in BOOLEAN
    /\ voice_detected \in BOOLEAN
    /\ tick \in 0..MaxTicks
    /\ pcmf32_buffer \in Nat
    /\ n_whisper_full \in Nat

----------------------------------------------------------------------------
(* Vocabulary of the properties *)

Last(s) == s[Len(s)]

\* a tick's worth of new samples when `elapsed` ms passed since the last fetch
TickWorth(elapsed) == (elapsed * WHISPER_SAMPLE_RATE) \div 1000

\* the verdicts are: silence ticks, then k voice ticks, then one silence tick
IsScenarioA(vs, k) ==
    /\ k >= 1
    /\ Len(vs) >= k + 1
    /\ \A i \in 1..Len(vs) :
          vs[i] = IF i >= Len(vs) - k /\ i < Len(vs) THEN "voice" ELSE "silence"

\* every tick accumulated into the segment advanced by the same `a` samples,
\* not more than its capture window
FixedAdvance(a) ==
    \A i \in 1..Len(speech_ticks) :
        /\ TickWorth(speech_ticks[i][1]) = a
        /\ a <= speech_ticks[i][2]

\* the result of whisper_full has text left after trimming
HasText(r) ==
    /\ r.ok
    /\ \E i \in 1..Len(r.texts) : \E j \in 1..Len(r.texts[i]) : ~IsSpace(r.texts[i][j])

\* the last silence-duration samples of the capture window of this tick
LookbackWindow == Chunk(tick, pcmf32_buffer - n_samples_vad, pcmf32_buffer)

RECURSIVE ExpectedAppended(_)
ExpectedAppended(ticks) ==
    IF ticks = <<>> THEN 0
    ELSE (IF TickWorth(ticks[1][1]) <= ticks[1][2]
          THEN TickWorth(ticks[1][1]) ELSE ticks[1][2])
         + ExpectedAppended(Tail(ticks))

----------------------------------------------------------------------------
(* C1: after silence ticks, k >= 1 voice ticks and one silence tick, with a
   fixed per-tick advance that fits the capture window, whisper_full has been
   invoked exactly once, on lookback + k ticks' worth of samples, and exactly
   one line is on stdout if the result has text after trimming (none
   otherwise). *)
C1_ScenarioA ==
    \A k \in 1..MaxTicks :
        IsScenarioA(verdicts, k) =>
            /\ pc \in {"accumulate", "start", "finalize"} => n_whisper_full = 0
            /\ pc = "transcribing" =>
                  /\ n_whisper_full = 1
                  /\ out = <<>>
                  /\ speech_ticks # <<>>
                  /\ LET a == TickWorth(speech_ticks[1][1]) IN
                        FixedAdvance(a) => call_len = n_samples_vad + k * a
            /\ pc \notin {"accumulate", "start", "finalize", "transcribing"} =>
                  /\ n_whisper_full = 1
                  /\ Len(raw_results) = 1
                  /\ Len(out) = IF HasText(raw_results[1]) THEN 1 ELSE 0

\* scenario A of the spec, k = 3, at the invocation of whisper_full
C1_Witness ==
    /\ pc = "transcribing"
    /\ verdicts = <<"silence", "silence", "voice", "voice", "voice", "silence">>
    /\ FixedAdvance(TickWorth(speech_ticks[1][1]))
    /\ call_len = n_samples_vad + 3 * TickWorth(speech_ticks[1][1])

(* C2: at the end of a tick that started in Silence and had verdict voice, the
   segment is exactly the last silence-duration samples of the capture window
   of that tick, and nothing else. *)
C2_LookbackSeed ==
    [][ (pc = "finalize" /\ ~start_in_speech /\ Last(verdicts) = "voice") =>
            /\ pc' = "poll"
            /\ in_speech'
            /\ pcmf32_segment' = <<LookbackWindow>>
            /\ LookbackWindow.from >= 0
            /\ LookbackWindow.to - LookbackWindow.from = n_samples_vad ]_vars

\* a Silence->Speech tick whose capture window is longer than the lookback
\* window and whose elapsed time is not zero
C2_Witness ==
    /\ pc = "finalize"
    /\ ~start_in_speech
    /\ in_speech
    /\ Last(verdicts) = "voice"
    /\ pcmf32_buffer > n_samples_vad
    /\ elapsed_time_ms > 0
    /\ n_starts = 2

(* C3: while in Speech the segment holds the lookback seed plus, for each tick
   accumulated, min(elapsed-derived sample count, capture window length)
   samples, the elapsed time being the time since the preceding fetch. *)
C3_NoDuplicateIngestion ==
    /\ in_speech =>
          SegLen(pcmf32_segment) = n_samples_vad + ExpectedAppended(speech_ticks)
    /\ pc \in {"vad", "accumulate"} /\ start_in_speech =>
          /\ elapsed_time_ms >= params.min_step_ms
          /\ SegLen(pcmf32_segment) = SegLen(start_segment)
    /\ pc \in {"start", "finalize", "transcribing"} /\ start_in_speech =>
          SegLen(pcmf32_segment) - SegLen(start_segment)
             = ExpectedAppended(<< <<elapsed_time_ms, pcmf32_buffer>> >>)

\* a segment with one tick appended in full and one capped at the window
C3_Witness ==
    /\ in_speech
    /\ Len(speech_ticks) >= 2
    /\ \E i \in 1..Len(speech_ticks) :
          TickWorth(speech_ticks[i][1]) > speech_ticks[i][2]
    /\ \E i \in 1..Len(speech_ticks) :
          TickWorth(speech_ticks[i][1]) < speech_ticks[i][2]

(* C4: when whisper_full fails or its text is empty after trimming, nothing is
   written to stdout for that utterance, the state returns to Silence with the
   segment cleared, and the loop is back at the top of the next tick, still
   running. *)
C4_FailedTranscription ==
    [][ (pc = "transcribing" /\ pc' # "transcribing"
            /\ ~HasText(Last(raw_results'))) =>
            /\ out' = out
            /\ ~in_speech'
            /\ pcmf32_segment' = <<>>
            /\ pc' = "poll"
            /\ exit_code' = Running
            /\ Len(raw_results') = Len(raw_results) + 1 ]_vars

\* an utterance whose transcription failed, followed by an utterance that was
\* transcribed and printed
C4_Witness ==
    /\ pc = "poll"
    /\ Len(raw_results) = 2
    /\ ~raw_results[1].ok
    /\ HasText(raw_results[2])
    /\ Len(out) = 1

\* the characters of the texts, one after the other
RECURSIVE Flat(_)
Flat(texts) ==
    IF texts = <<>> THEN <<>> ELSE texts[1] \o Flat(Tail(texts))

\* s from its first to its last character that is not white space
Stripped(s) ==
    LET idx == { i \in 1..Len(s) : ~IsSpace(s[i]) } IN
    IF idx = {} THEN <<>>
    ELSE SubSeq(s, CHOOSE i \in idx : \A j \in idx : i <= j,
                   CHOOSE i \in idx : \A j \in idx : i >= j)

\* the lines due for the results rs: the trimmed text of each result that has one
RECURSIVE ExpectedLines(_)
ExpectedLines(rs) ==
    IF rs = <<>> THEN <<>>
    ELSE (IF HasText(rs[1]) THEN <<Stripped(Flat(rs[1].texts))>> ELSE <<>>)
         \o ExpectedLines(Tail(rs))

(* C5: stdout is exactly the sequence of the non-empty trimmed transcription
   results, one line per finalized utterance that has one, in the order of
   the finalizations. *)
C5_OutputOrder ==
    /\ out = ExpectedLines(raw_results)
    /\ \A i \in 1..Len(out) : out[i] # <<>>
    /\ pc # "transcribing" => Len(raw_results) = n_whisper_full

\* two utterances with different texts and one without text between them
C5_Witness ==
    /\ Len(raw_results) = 3
    /\ HasText(raw_results[1])
    /\ ~HasText(raw_results[2])
    /\ raw_results[2].ok
    /\ HasText(raw_results[3])
    /\ Len(out) = 2
    /\ out[1] # out[2]

(* C6: whisper_full is never invoked while a previous invocation is
   outstanding: at every invocation all earlier results have been consumed,
   the state is Speech and a segment has been started since the previous
   invocation, and every invocation ends with the state back in Silence. *)
C6_SingleInFlight ==
    /\ [](/\ n_whisper_full <= n_starts
          /\ n_starts <= n_whisper_full + 1
          /\ pc = "transcribing" =>
                Len(raw_results) = n_whisper_full - 1 /\ in_speech)
    /\ [][ /\ n_whisper_full' # n_whisper_full =>
                 /\ n_whisper_full' = n_whisper_full + 1
                 /\ pc # "transcribing"
                 /\ pc' = "transcribing"
                 /\ Len(raw_results) = n_whisper_full
                 /\ in_speech
                 /\ n_starts = n_whisper_full + 1
           /\ (pc = "transcribing" /\ pc' # "transcribing") =>
                 /\ pc' = "poll"
                 /\ ~in_speech'
                 /\ Len(raw_results') = n_whisper_full ]_vars

\* the second invocation of whisper_full
C6_Witness ==
    /\ pc = "transcribing"
    /\ n_whisper_full = 2
    /\ n_starts = 2

(* C7: a tick that starts in Silence and has verdict silence leaves the
   segment unchanged and the state Silence and does not invoke whisper_full. *)
C7_IdempotentSilence ==
    /\ []((pc \in {"accumulate", "start", "finalize"} /\ ~start_in_speech
             /\ Last(verdicts) = "silence") =>
            /\ ~in_speech
            /\ pcmf32_segment = start_segment
            /\ call_len = 0)
    /\ [][ /\ pc \in {"wait", "fetch", "vad"} =>
                 UNCHANGED <<pcmf32_segment, in_speech, n_whisper_full, out>>
           /\ (pc \in {"accumulate", "start", "finalize"} /\ ~start_in_speech
                 /\ Last(verdicts) = "silence") =>
                 /\ UNCHANGED <<pcmf32_segment, in_speech, n_whisper_full, out>>
                 /\ pc' # "transcribing" ]_vars

\* the last step of the third of three consecutive silence ticks in Silence
C7_Witness ==
    /\ pc = "finalize"
    /\ ~start_in_speech
    /\ verdicts = <<"silence", "silence", "silence">>
    /\ elapsed_time_ms > 0
    /\ pcmf32_buffer > 0

(* C8: once the interrupt is observed nothing more is fetched, decided,
   transcribed or printed; a segment in progress is neither transcribed nor
   printed (after verdicts voice, voice, voice: no invocation at all). *)
C8_NoFlushOnInterrupt ==
    /\ []((pc \in {"exit", "done"} /\ in_speech) =>
            /\ n_whisper_full = n_starts - 1
            /\ Len(raw_results) = n_whisper_full
            /\ out = ExpectedLines(raw_results))
    /\ []((pc \in {"exit", "done"} /\ verdicts = <<"voice", "voice", "voice">>) =>
            n_whisper_full = 0 /\ out = <<>>)
    /\ [][ /\ pc' \in {"exit", "done"} =>
                 UNCHANGED <<tick, verdicts, pcmf32_buffer, n_whisper_full,
                             raw_results, out, in_speech, pcmf32_segment>>
           /\ pc \in {"exit", "done"} => pc' \in {"exit", "done"} ]_vars

\* scenario C of the spec: interrupted in Speech after voice, voice, voice
C8_Witness ==
    /\ pc = "done"
    /\ exit_code = 0
    /\ in_speech
    /\ verdicts = <<"voice", "voice", "voice">>
    /\ pcmf32_segment # <<>>

(* C9: the length of the speech segment never exceeds a bound fixed by the
   configuration; here the lookback window plus one capture buffer. *)
C9_BoundedSegment ==
    SegLen(pcmf32_segment) <= n_samples_vad + n_samples_buffer

(* C10: when the detector succeeds and returns at least one probability, the
   verdict is voice iff the maximum probability is strictly greater than the
   threshold; [0.4, 0.6] is voice at threshold 0.5 and silence at 0.6. *)
C10_ThresholdStrict ==
    (pc = "accumulate" /\ vad_out.invoked /\ vad_out.success
        /\ Len(vad_out.probs) >= 1) =>
        /\ \E i \in 1..Len(vad_out.probs) :
              /\ \A j \in 1..Len(vad_out.probs) : vad_out.probs[j] <= vad_out.probs[i]
              /\ voice_detected <=> vad_out.probs[i] > params.vad_thold
        /\ (vad_out.probs = <<40, 60>> /\ params.vad_thold = 50) => voice_detected
        /\ (vad_out.probs = <<40, 60>> /\ params.vad_thold = 60) => ~voice_detected

\* the maximum is equal to the threshold: probabilities [0.4, 0.6], threshold 0.6
C10_Witness ==
    /\ pc = "accumulate"
    /\ vad_out.invoked
    /\ vad_out.success
    /\ vad_out.probs = <<40, 60>>
    /\ params.vad_thold = 60
    /\ ~voice_detected

(* C11: the VAD decision never fails: on a zero-length window it is silence
   and the detector is not invoked; when the detector fails or returns no
   probabilities it is silence; the detector is invoked at most once per
   decision; and in the loop the tick goes on after such a decision. *)
C11_VadNeverFails ==
    /\ [](pc \in {"decided", "accumulate"} =>
            /\ voice_detected \in BOOLEAN
            /\ vad_out.calls <= 1
            /\ vad_out.invoked <=> vad_out.calls = 1
            /\ (pc = "decided" /\ pcmf32_vad = 0) =>
                  ~voice_detected /\ vad_out.calls = 0
            /\ (vad_out.invoked /\ (~vad_out.success \/ vad_out.probs = <<>>)) =>
                  ~voice_detected
            /\ exit_code = Running)
    /\ [][ (pc = "vad" /\ vad_out'.invoked
              /\ (~vad_out'.success \/ vad_out'.probs = <<>>)) =>
              /\ pc' = "accumulate"
              /\ ~voice_detected'
              /\ exit_code' = Running ]_vars

\* the detector failed on a tick in Speech and the loop is at its next step
C11_Witness ==
    /\ pc = "accumulate"
    /\ in_speech
    /\ vad_out.invoked
    /\ ~vad_out.success
    /\ ~voice_detected

(* C12: a collaborator that fails to initialize ends the process with its own
   non-zero exit code (primary model 2, VAD model 3, audio device 1), nothing
   is retried and the main loop is never entered. *)
C12_InitFailureExitCodes ==
    /\ [](exit_code \notin {Running, 0} =>
            /\ pc = "done"
            /\ exit_code \in {1, 2, 3}
            /\ exit_code = 2 <=> ctx = "null"
            /\ exit_code = 3 <=> (ctx = "freed" /\ vad_ctx = "null")
            /\ exit_code = 1 <=> (ctx = "live" /\ vad_ctx = "live")
            /\ audio = "uninit"
            /\ tick = 0
            /\ verdicts = <<>>
            /\ ~vad_out.invoked
            /\ n_whisper_full = 0
            /\ out = <<>>)
    /\ [][ /\ (pc = "init" /\ pc' = "done") => exit_code' \in {1, 2, 3}
           /\ pc = "done" => pc' = "done" /\ exit_code' = exit_code ]_vars

\* the VAD model failed to load: exit code 3, the primary model freed
C12_Witness ==
    /\ pc = "done"
    /\ exit_code = 3
    /\ ctx = "freed"
    /\ vad_ctx = "null"
    /\ tick = 0

(* C13: after the interrupt the capture is paused, the VAD context and the
   transcription context are each freed exactly once and the exit code is 0,
   also with a segment in progress, which is left as it is. *)
C13_GracefulShutdown ==
    /\ []((pc = "done" /\ exit_code = 0) =>
            audio = "paused" /\ vad_ctx = "freed" /\ ctx = "freed")
    /\ [](ctx # "freed twice" /\ vad_ctx # "freed twice")
    /\ [][ /\ pc = "exit" =>
                 /\ audio = "running" /\ vad_ctx = "live" /\ ctx = "live"
                 /\ pc' = "done"
                 /\ exit_code' = 0
                 /\ UNCHANGED <<in_speech, pcmf32_segment, n_whisper_full,
                                raw_results, out>>
           /\ pc = "done" => UNCHANGED <<audio, vad_ctx, ctx, exit_code>> ]_vars

\* a clean exit with a second utterance in progress
C13_Witness ==
    /\ pc = "done"
    /\ exit_code = 0
    /\ audio = "paused"
    /\ vad_ctx = "freed"
    /\ ctx = "freed"
    /\ in_speech
    /\ n_whisper_full = 1
    /\ SegLen(pcmf32_segment) > n_samples_vad

\* the positions of main() inside the loop
LoopPcs == {"poll", "wait", "fetch", "vad", "accumulate", "start", "finalize",
            "transcribing"}

(* C14: the session starts in Silence; at the end of every tick the state is
   Speech iff the verdict of that tick was voice, whatever the state before;
   and inside the loop there is always a next step, the loop being left only
   by the interrupt. *)
C14_StateFollowsVerdict ==
    /\ []((pc = "poll" /\ tick = 0) => ~in_speech)
    /\ []((pc \in LoopPcs \ {"poll"}) => ENABLED Next)
    /\ []((pc = "poll" /\ tick < MaxTicks) => ENABLED PollContinue)
    /\ [][ /\ (pc \in {"finalize", "transcribing"} /\ pc' = "poll") =>
                 (in_speech' <=> Last(verdicts) = "voice")
           /\ (pc \in LoopPcs /\ pc' \notin LoopPcs) =>
                 pc = "poll" /\ pc' = "exit" ]_vars

\* the four transitions in a row: Silence stays, Speech starts, Speech stays,
\* Speech ends
C14_Witness ==
    /\ pc = "poll"
    /\ verdicts = <<"silence", "voice", "voice", "silence">>
    /\ ~in_speech
    /\ n_whisper_full = 1

(* C15: on a tick whose capture window is shorter than the VAD window no
   verdict is computed and the tick is a no-op: the state is the one the tick
   started in, the segment is not finalized and whisper_full is not
   invoked. *)
C15_ShortWindowNoOp ==
    (pc \in {"accumulate", "start", "finalize", "transcribing"}
        /\ Last(verdicts) = "none") =>
        /\ ~vad_out.invoked
        /\ in_speech = start_in_speech
        /\ pc # "transcribing"
        /\ call_len = 0

(* C16: at least the minimum step, itself at least 100 ms, passes between two
   consecutive fetches: the cadence wait sleeps for the remaining time when
   less than the minimum has passed since the last fetch and does not sleep
   when the remaining time is zero or negative. *)
C16_CadenceMinimum ==
    /\ [](params.min_step_ms >= 100)
    /\ [](pc = "fetch" => time_since_last >= params.min_step_ms)
    /\ []((pc \in LoopPcs \ {"poll", "wait", "fetch"}) =>
            elapsed_time_ms >= params.min_step_ms)
    /\ [][ pc = "wait" =>
             /\ sleep_duration' = params.min_step_ms - time_since_last
             /\ time_since_last < params.min_step_ms =>
                   \E late \in Jitter :
                       time_since_last' = time_since_last + sleep_duration' + late
             /\ time_since_last >= params.min_step_ms =>
                   \E late \in Jitter :
                       time_since_last' = time_since_last + late ]_vars

\* no sleep after a transcription longer than one step: the remaining time is
\* negative
C16_Witness ==
    /\ pc = "fetch"
    /\ sleep_duration < 0
    /\ n_whisper_full = 1
    /\ time_since_last = 3000

(* C17: whenever the state is Silence, at the top of the loop in particular,
   the segment is empty: the segment is non-empty only in Speech. *)
C17_SilenceMeansEmptySegment ==
    /\ (pc = "poll" /\ ~in_speech) => pcmf32_segment = <<>>
    /\ pcmf32_segment # <<>> => in_speech
    /\ (pc = "poll" /\ ~in_speech) => speech_ticks = <<>>

\* the top of the loop in Silence after an utterance has been transcribed
C17_Witness ==
    /\ pc = "poll"
    /\ ~in_speech
    /\ pcmf32_segment = <<>>
    /\ n_whisper_full = 1
    /\ Len(raw_results) = 1
    /\ tick < MaxTicks

(* C18: every segment handed to whisper_full is at least one lookback window
   long, so never empty; a voice verdict implies a capture window of at
   least the lookback length, so every chunk of the segment lies inside the
   capture window it was copied from. *)
C18_SegmentAtLeastLookback ==
    /\ pc = "transcribing" =>
          /\ call_len = SegLen(pcmf32_segment)
          /\ call_len >= n_samples_vad
          /\ call_len > 0
    /\ (pc = "finalize" /\ ~voice_detected /\ in_speech) => pcmf32_segment # <<>>
    /\ in_speech => SegLen(pcmf32_segment) >= n_samples_vad
    /\ voice_detected => pcmf32_buffer >= n_samples_vad
    /\ \A i \in 1..Len(pcmf32_segment) :
          /\ pcmf32_segment[i].from >= 0
          /\ pcmf32_segment[i].from <= pcmf32_segment[i].to
    /\ Len(raw_results) <= n_whisper_full

\* the shortest segment: the seed alone, nothing added by the closing tick
C18_Witness ==
    /\ pc = "transcribing"
    /\ call_len = n_samples_vad
    /\ Len(pcmf32_segment) = 1

(* C19: when the silence duration exceeds the audio buffer duration, every
   capture window is shorter than the VAD window: no verdict is computed,
   the state stays Silence, the detector and whisper_full are never invoked
   and nothing is printed. *)
C19_SilenceLongerThanBuffer ==
    params.silence_ms > params.audio_buffer_ms =>
        /\ n_samples_vad > n_samples_buffer
        /\ pcmf32_buffer < n_samples_vad
        /\ \A i \in 1..Len(verdicts) : verdicts[i] = "none"
        /\ ~voice_detected
        /\ ~in_speech
        /\ pcmf32_segment = <<>>
        /\ ~vad_out.invoked
        /\ n_starts = 0
        /\ n_whisper_full = 0
        /\ out = <<>>

\* silence 5000 ms, buffer 2000 ms: three ticks on full capture windows
C19_Witness ==
    /\ params.silence_ms = 5000
    /\ params.audio_buffer_ms = 2000
    /\ pc = "finalize"
    /\ tick = 3
    /\ pcmf32_buffer = n_samples_buffer
    /\ verdicts = <<"none", "none", "none">>

====
